---- MODULE Spec2Model ----
(***************************************************************************)
(* Energy units, fuels, fuel blends and energy providers of src/energy.rs. *)
(* A value of a unit type (Joule(n), Calorie(n), a bare BTU n) is the      *)
(* record [unit |-> u, val |-> n]; a fuel type is a tuple: <<"Diesel">>,   *)
(* <<"Mixed", F1, F2>>, <<"CustomMixed", C, F1, F2>>.                      *)
(* All products of the modelled inputs stay far below 2^32, so the u32     *)
(* arithmetic of the source never overflows here.                          *)
(***************************************************************************)
EXTENDS Integers, Sequences, FiniteSets

\* ------------------------------------------------------------------ bounds
\* Largest DECAY const parameter the engines are instantiated with.
MaxDecay == 3
\* Number of provide_energy calls on the combustion engine that are tracked.
MaxCalls == 8

\* ------------------------------------------------------------------ inputs
\* u8 efficiency arguments: the ends of the range, both sides of the 100 clamp,
\* and the value of test ic_1.
Efficiencies == {0, 1, 100, 101, 120, 255}
\* FuelContainer amounts.
Amounts == {0, 7, 10}
\* Blend coefficients C of CustomMixed.
Coefficients == {25, 50, 75}

\* ------------------------------------------------------------------ units
JouleToBTU(j) == j \div 1055
BTUToJoule(b) == b * 1055
CalorieToBTU(c) == c \div 251
BTUToCalorie(b) == b * 251

\* <Output as Into<BTU>>::into
IntoBTU(o) ==
  CASE o.unit = "Joule" -> JouleToBTU(o.val)
    [] o.unit = "Calorie" -> CalorieToBTU(o.val)
    [] o.unit = "BTU" -> o.val

\* <Output as From<BTU>>::from
FromBTU(u, b) ==
  CASE u = "Joule" -> [unit |-> "Joule", val |-> BTUToJoule(b)]
    [] u = "Calorie" -> [unit |-> "Calorie", val |-> BTUToCalorie(b)]
    [] u = "BTU" -> [unit |-> "BTU", val |-> b]

\* ------------------------------------------------------------------ fuels
Diesel == <<"Diesel">>
LithiumBattery == <<"LithiumBattery">>
Uranium == <<"Uranium">>
Mixed(F1, F2) == <<"Mixed", F1, F2>>
CustomMixed(C, F1, F2) == <<"CustomMixed", C, F1, F2>>

BaseFuels == {Diesel, LithiumBattery, Uranium}
\* Blends of two fuels drawn from S.
BlendsOf(S) ==
  {Mixed(a, b) : a \in S, b \in S}
    \cup {CustomMixed(c, a, b) : c \in Coefficients, a \in S, b \in S}
\* Every fuel type with at most two levels of blending.
AllFuels == BaseFuels \cup BlendsOf(BaseFuels \cup BlendsOf(BaseFuels))
\* The fuels handed to the providers: every unit, even and odd densities.
Fuels ==
  BaseFuels \cup {Mixed(Diesel, LithiumBattery),
                  CustomMixed(25, Diesel, LithiumBattery),
                  CustomMixed(75, Diesel, LithiumBattery)}

\* Fuel::Output
OutputUnit(F) ==
  CASE F[1] = "Diesel" -> "Joule"
    [] F[1] = "LithiumBattery" -> "Calorie"
    [] F[1] = "Uranium" -> "Joule"
    [] F[1] = "Mixed" -> "BTU"
    [] F[1] = "CustomMixed" -> "BTU"

\* impl IsRenewable for ...
IsRenewable(F) == F = LithiumBattery

Mixed_energy_density(density_f1, density_f2) == (density_f1 + density_f2) \div 2

\* The two terms summed first and divided once.
CustomMixed_energy_density_once(C, density_f1, density_f2) ==
  (density_f1 * C + density_f2 * (100 - C)) \div 100

CustomMixed_energy_density(C, density_f1, density_f2) ==
  LET weighted_density_f1 == (density_f1 * C) \div 100
      weighted_density_f2 == (density_f2 * (100 - C)) \div 100
  IN weighted_density_f1 + weighted_density_f2

\* Fuel::energy_density
RECURSIVE energy_density(_)
energy_density(F) ==
  CASE F[1] = "Diesel" -> FromBTU("Joule", 100)
    [] F[1] = "LithiumBattery" -> FromBTU("Calorie", 200)
    [] F[1] = "Uranium" -> FromBTU("Joule", 1000)
    [] F[1] = "Mixed" ->
         [unit |-> "BTU",
          val |-> Mixed_energy_density(IntoBTU(energy_density(F[2])),
                                       IntoBTU(energy_density(F[3])))]
    [] F[1] = "CustomMixed" ->
         [unit |-> "BTU",
          val |-> CustomMixed_energy_density(F[2],
                                             IntoBTU(energy_density(F[3])),
                                             IntoBTU(energy_density(F[4])))]

\* ------------------------------------------------------------------ providers
\* The clamp and the scaling of ProvideEnergy::provide_energy_with_efficiency,
\* applied to the energy its provide_energy call returned.  The product of a
\* u32 and a percentage is exact in f64 and its quotient by 100.0 is never
\* rounded up to the next integer, so the cast back to u32 is the floor.
with_efficiency(F, energy, e) ==
  LET efficiency == IF e > 100 THEN 100 ELSE e
      energy_in_btu == IntoBTU(energy)
      adjusted_energy == (energy_in_btu * efficiency) \div 100
  IN FromBTU(OutputUnit(F), adjusted_energy)

\* Divides before it multiplies.
NuclearReactor_divide_first(F, amount) ==
  FromBTU(OutputUnit(F), ((amount * IntoBTU(energy_density(F))) \div 100) * 99)

NuclearReactor_provide_energy(F, amount) ==
  LET efficiency == 99
      energy_density_ == amount * IntoBTU(energy_density(F))
      adjusted_energy == (energy_density_ * efficiency) \div 100
  IN FromBTU(OutputUnit(F), adjusted_energy)

\* Uses EFFICIENCY as declared.
OmniGenerator_unclamped(EFFICIENCY, F, amount) ==
  FromBTU(OutputUnit(F), (amount * IntoBTU(energy_density(F)) * EFFICIENCY) \div 100)

OmniGenerator_provide_energy(EFFICIENCY, F, amount) ==
  LET efficiency == IF EFFICIENCY > 100 THEN 100 ELSE EFFICIENCY
      energy_density_ == IntoBTU(energy_density(F))
      energy_in_btu == amount * energy_density_
      adjusted_energy == (energy_in_btu * efficiency) \div 100
  IN FromBTU(OutputUnit(F), adjusted_energy)

omni_80_energy(amount) ==
  IntoBTU(OmniGenerator_provide_energy(80, Mixed(Diesel, LithiumBattery), amount))

GreenEngine_provide_energy(F, amount) ==
  FromBTU(OutputUnit(F), amount * IntoBTU(energy_density(F)))

BritishEngine_provide_energy(F, amount) ==
  FromBTU(OutputUnit(F), amount * IntoBTU(energy_density(F)))

\* The fuel types each impl block accepts: its bounds on F.
NuclearReactor_accepts(F) == F \in Fuels
OmniGenerator_accepts(F) == F \in Fuels
InternalCombustion_accepts(F) == F \in Fuels
GreenEngine_accepts(F) == F \in Fuels
BritishEngine_accepts(F) == F \in Fuels

\* ------------------------------------------------------------------ combustion engine
\* Stores the efficiency as supplied.
InternalCombustion_new_unclamped(efficiency) ==
  [efficiency |-> efficiency, count |-> 0]

\* InternalCombustion::new
InternalCombustion_new(efficiency) ==
  [efficiency |-> IF efficiency < 100 THEN efficiency ELSE 100, count |-> 0]

\* u8 subtraction that wraps.
wrapping_sub(a, b) == (a - b) % 256

\* u8::saturating_sub
saturating_sub(a, b) == IF a > b THEN a - b ELSE 0

\* Stores the count it is given.
update_count_as_given(new_count) == new_count

\* InternalCombustion::update_count: the value stored in the cell.
update_count(new_count) == new_count + 1

\* InternalCombustion::provide_energy on the engine `self`: the engine after
\* the call, the local efficiency, whether the call found count = DECAY,
\* and the returned energy.
InternalCombustion_provide_energy(self, D, F, amount) ==
  LET read_count == self.count
      hit == read_count = D
      new_count == IF hit THEN 0 ELSE read_count
      efficiency == IF hit THEN saturating_sub(self.efficiency, 1) ELSE self.efficiency
      energy_in_btu == amount * IntoBTU(energy_density(F))
      adjusted_energy == (energy_in_btu * efficiency) \div 100
  IN [self |-> [self EXCEPT !.count = update_count(new_count)],
      efficiency |-> efficiency,
      hit |-> hit,
      energy |-> FromBTU(OutputUnit(F), adjusted_energy)]

\* ------------------------------------------------------------------ state
VARIABLES
  DECAY,     \* the const parameter of the InternalCombustion engines
  e0,        \* the efficiency percentage supplied: InternalCombustion::new(e0),
             \* OmniGenerator::<e0>, provide_energy_with_efficiency(f, e0)
  fuel,      \* the fuel type F the providers are instantiated with
  ic,        \* InternalCombustion::<DECAY>::new(e0): [efficiency, count]
  ic100,     \* InternalCombustion::<DECAY>::new(100), called alongside ic
  calls,     \* provide_energy calls made on ic so far
  steps,     \* how many of them found count = DECAY
  since,     \* calls made on ic after the latest one that found count = DECAY
  eff_used,  \* the local `efficiency` of the latest provide_energy call on ic
  op,        \* the latest operation
  amount,    \* its FuelContainer amount
  energy,    \* what its provide_energy call returned
  out,       \* what the operation returned
  out100     \* what the same operation returned on ic100

vars ==
  <<DECAY, e0, fuel, ic, ic100, calls, steps, since, eff_used, op, amount,
    energy, out, out100>>

engine_vars == <<ic, ic100, calls, steps, since, eff_used>>

NoEnergy == [unit |-> "BTU", val |-> 0]

Init ==
  /\ DECAY \in 0..MaxDecay
  /\ e0 \in Efficiencies
  /\ fuel \in Fuels
  /\ ic = InternalCombustion_new(e0)
  /\ ic100 = InternalCombustion_new(100)
  /\ calls = 0
  /\ steps = 0
  /\ since = 0
  /\ eff_used = ic.efficiency
  /\ op = "new"
  /\ amount = 0
  /\ energy = NoEnergy
  /\ out = NoEnergy
  /\ out100 = NoEnergy

\* ic.provide_energy(f) and ic100.provide_energy(f) on containers of q units;
\* name "ic" returns the energy as it is, any other name hands it to the
\* scaling of provide_energy_with_efficiency(f, e0).
ICStep(name, q) ==
  LET r == InternalCombustion_provide_energy(ic, DECAY, fuel, q)
      r100 == InternalCombustion_provide_energy(ic100, DECAY, fuel, q)
  IN /\ InternalCombustion_accepts(fuel)
     /\ ic' = r.self
     /\ ic100' = r100.self
     /\ eff_used' = r.efficiency
     /\ energy' = r.energy
     /\ out' = IF name = "ic" THEN r.energy ELSE with_efficiency(fuel, r.energy, e0)
     /\ out100' = IF name = "ic" THEN r100.energy
                  ELSE with_efficiency(fuel, r100.energy, 100)
     /\ op' = name
     /\ amount' = q
     /\ UNCHANGED <<DECAY, e0, fuel>>

\* The bookkeeping of one call on ic.
ICTrack ==
  /\ calls < MaxCalls
  /\ calls' = calls + 1
  /\ steps' = IF ic.count = DECAY THEN steps + 1 ELSE steps
  /\ since' = IF ic.count = DECAY THEN 0 ELSE since + 1

\* ic.provide_energy(FuelContainer::<F>::new(q))
ICProvideEnergy ==
  \E q \in Amounts : ICTrack /\ ICStep("ic", q)

\* ic.provide_energy_with_efficiency(FuelContainer::<F>::new(q), e0)
ICProvideEnergyWithEfficiency ==
  \E q \in Amounts : ICTrack /\ ICStep("ic_with_efficiency", q)

\* A call on a provider without state.
Stateless(name, q, result) ==
  /\ op' = name
  /\ amount' = q
  /\ energy' = result
  /\ out' = result
  /\ out100' = result
  /\ UNCHANGED <<DECAY, e0, fuel>>
  /\ UNCHANGED engine_vars

\* NuclearReactor.provide_energy(FuelContainer::<F>::new(q))
NuclearProvideEnergy ==
  \E q \in Amounts :
    /\ NuclearReactor_accepts(fuel)
    /\ Stateless("nuclear", q, NuclearReactor_provide_energy(fuel, q))

\* NuclearReactor.provide_energy_with_efficiency(FuelContainer::<F>::new(q), e0)
NuclearProvideEnergyWithEfficiency ==
  \E q \in Amounts :
    LET r == NuclearReactor_provide_energy(fuel, q)
    IN /\ NuclearReactor_accepts(fuel)
       /\ op' = "nuclear_with_efficiency"
       /\ amount' = q
       /\ energy' = r
       /\ out' = with_efficiency(fuel, r, e0)
       /\ out100' = with_efficiency(fuel, r, 100)
       /\ UNCHANGED <<DECAY, e0, fuel>>
       /\ UNCHANGED engine_vars

\* OmniGenerator::<e0>.provide_energy(FuelContainer::<F>::new(q))
OmniProvideEnergy ==
  \E q \in Amounts :
    /\ OmniGenerator_accepts(fuel)
    /\ Stateless("omni", q, OmniGenerator_provide_energy(e0, fuel, q))

\* omni_80_energy(q)
Omni80Energy ==
  \E q \in Amounts :
    Stateless("omni_80", q, [unit |-> "BTU", val |-> omni_80_energy(q)])

\* GreenEngine::<F>(PhantomData).provide_energy(FuelContainer::<F>::new(q))
GreenProvideEnergy ==
  \E q \in Amounts :
    /\ GreenEngine_accepts(fuel)
    /\ Stateless("green", q, GreenEngine_provide_energy(fuel, q))

\* BritishEngine::<F>(PhantomData).provide_energy(FuelContainer::<F>::new(q))
BritishProvideEnergy ==
  \E q \in Amounts :
    /\ BritishEngine_accepts(fuel)
    /\ Stateless("british", q, BritishEngine_provide_energy(fuel, q))

Next ==
  \/ ICProvideEnergy
  \/ ICProvideEnergyWithEfficiency
  \/ NuclearProvideEnergy
  \/ NuclearProvideEnergyWithEfficiency
  \/ OmniProvideEnergy
  \/ Omni80Energy
  \/ GreenProvideEnergy
  \/ BritishProvideEnergy

Spec == Init /\ [][Next]_vars

\* ------------------------------------------------------------------ fairness
\* The engine called again and again, the bookkeeping left alone.
ICProvideEnergyUntracked ==
  \E q \in Amounts : ICStep("ic", q) /\ UNCHANGED <<calls, steps, since>>

InitFair == Init /\ DECAY >= 1

NextFair == ICProvideEnergyUntracked

FairSpec == InitFair /\ [][NextFair]_vars /\ WF_vars(NextFair)

\* ------------------------------------------------------------------ fuel types
\* Fuel::energy_density() of one fuel type, evaluated once.
InitFuel ==
  /\ fuel \in AllFuels
  /\ DECAY = 0
  /\ e0 = 100
  /\ ic = InternalCombustion_new(e0)
  /\ ic100 = InternalCombustion_new(100)
  /\ calls = 0
  /\ steps = 0
  /\ since = 0
  /\ eff_used = ic.efficiency
  /\ op = "type"
  /\ amount = 0
  /\ energy = NoEnergy
  /\ out = NoEnergy
  /\ out100 = NoEnergy

EnergyDensityCall ==
  /\ op = "type"
  /\ op' = "energy_density"
  /\ out' = energy_density(fuel)
  /\ out100' = out'
  /\ UNCHANGED <<DECAY, e0, fuel, amount, energy>>
  /\ UNCHANGED engine_vars

NextFuel == EnergyDensityCall

SpecFuel == InitFuel /\ [][NextFuel]_vars

\* ------------------------------------------------------------------ properties
\* The base-unit density of the fuel in use.
DensityBTU == IntoBTU(energy_density(fuel))
Min100(e) == IF e < 100 THEN e ELSE 100
Max0(x) == IF x > 0 THEN x ELSE 0
ICCalled == op \in {"ic", "ic_with_efficiency"}

\* C1 as stated: calls 1..DECAY of an engine built with efficiency e0 return
\* floor(q*d*min(e0,100)/100) and call DECAY+1 returns
\* floor(q*d*(min(e0,100)-1)/100).
C1_StepDownOnCallDPlus1 ==
  ICCalled =>
    /\ calls \in 1..DECAY =>
         IntoBTU(energy) = (amount * DensityBTU * Min100(e0)) \div 100
    /\ calls = DECAY + 1 =>
         IntoBTU(energy) = (amount * DensityBTU * (Min100(e0) - 1)) \div 100

\* C1 amended: call DECAY+1 returns floor(q*d*max(min(e0,100)-1, 0)/100): the
\* step-down saturates at 0 for an engine built with efficiency 0.
C1_StepDownOnCallDPlus1_Saturating ==
  ICCalled =>
    /\ calls \in 1..DECAY =>
         IntoBTU(energy) = (amount * DensityBTU * Min100(e0)) \div 100
    /\ calls = DECAY + 1 =>
         IntoBTU(energy) = (amount * DensityBTU * Max0(Min100(e0) - 1)) \div 100

\* The fourth call of test ic_1 returns 990.
C1_Witness ==
  /\ DECAY = 3 /\ e0 = 120 /\ fuel = Diesel /\ amount = 10
  /\ op = "ic" /\ calls = 4 /\ IntoBTU(out) = 990

\* C2: after k calls have stepped the efficiency down, the efficiency in use is
\* max(min(e0,100) - k, 0), until the next step-down.
C2_DecayIsPermanent ==
  eff_used = Max0(Min100(e0) - steps)

\* C3: under repeated provide_energy calls the efficiency in use eventually is 0
\* and stays 0, and it never leaves 0..100.
C3_EfficiencyEndsAtZero ==
  <>[](eff_used = 0) /\ [](eff_used \in 0..100)

\* C4: an efficiency above 100 gives what 100 gives: the engine built with it
\* is in the state of the engine built with 100 and returns what that engine
\* returns, OmniGenerator::<e0> returns what OmniGenerator::<100> returns, and
\* provide_energy_with_efficiency(f, e0), on the combustion engine and on the
\* reactor, what it returns with 100.
C4_Above100Is100 ==
  e0 > 100 =>
    /\ ic = ic100
    /\ out = out100
    /\ op = "omni" => out = OmniGenerator_provide_energy(100, fuel, amount)
    /\ op \in {"ic_with_efficiency", "nuclear_with_efficiency"} =>
         out = with_efficiency(fuel, energy, 100)

C4_Witness ==
  /\ e0 = 255 /\ op = "ic_with_efficiency" /\ calls = DECAY + 1
  /\ amount = 7 /\ IntoBTU(out) > 0

\* C5 as stated: CustomMixed<50,F1,F2>::energy_density() equals
\* Mixed<F1,F2>::energy_density() for every pair of fuels.
C5_HalfBlendIsMixed ==
  (op = "energy_density" /\ fuel[1] = "CustomMixed" /\ fuel[2] = 50) =>
    out = energy_density(Mixed(fuel[3], fuel[4]))

\* C5 amended: they are equal unless both base-unit densities are odd, and
\* then CustomMixed<50,F1,F2> is one less than Mixed<F1,F2>.
C5_HalfBlendIsMixedUnlessBothOdd ==
  (op = "energy_density" /\ fuel[1] = "CustomMixed" /\ fuel[2] = 50) =>
    LET d1 == IntoBTU(energy_density(fuel[3]))
        d2 == IntoBTU(energy_density(fuel[4]))
        mixed == energy_density(Mixed(fuel[3], fuel[4]))
    IN /\ out.unit = mixed.unit
       /\ out.val = IF d1 % 2 = 1 /\ d2 % 2 = 1 THEN mixed.val - 1 ELSE mixed.val

\* The half blend of two blends of odd density, 175 and 125.
C5_Witness ==
  /\ op = "energy_density"
  /\ fuel = CustomMixed(50, CustomMixed(25, Diesel, LithiumBattery),
                            CustomMixed(75, Diesel, LithiumBattery))
  /\ out.val = 149

\* C6: a GreenEngine is only called with a fuel marked IsRenewable, a
\* BritishEngine only with a fuel whose output unit is BTU, and both return
\* amount * density.
C6_OnlyQualifiedFuels ==
  /\ op = "green" =>
       IsRenewable(fuel) /\ IntoBTU(out) = amount * DensityBTU
  /\ op = "british" =>
       OutputUnit(fuel) = "BTU" /\ IntoBTU(out) = amount * DensityBTU

\* C7: OmniGenerator::<e0>.provide_energy in base units is
\* floor(q * d * min(e0,100) / 100), and omni_80_energy(q) is
\* floor(q * 150 * 80 / 100).
C7_OmniEnergy ==
  /\ op = "omni" =>
       IntoBTU(out) = (amount * DensityBTU * Min100(e0)) \div 100
  /\ op = "omni_80" => IntoBTU(out) = (amount * 150 * 80) \div 100

\* The first assertion of test omni_1.
C7_Witness ==
  /\ op = "omni" /\ e0 = 100 /\ fuel = Uranium /\ amount = 10
  /\ IntoBTU(out) = 10000

\* C8: NuclearReactor.provide_energy returns floor(q * d * 99 / 100) in base
\* units whatever was called before, and leaves the engines as they were.
C8_NuclearStateless ==
  /\ [](op = "nuclear" => IntoBTU(out) = (amount * DensityBTU * 99) \div 100)
  /\ [][op' = "nuclear" => UNCHANGED <<ic, ic100>>]_vars

\* Test nuclear, after the combustion engine has stepped down.
C8_Witness ==
  /\ op = "nuclear" /\ fuel = Uranium /\ amount = 10 /\ IntoBTU(out) = 9900
  /\ steps >= 1

\* C9 as stated: the counter is 0 after construction; a call that finds it
\* equal to DECAY leaves it at 0, any other call leaves it one higher; it
\* stays within 0..DECAY and consecutive step-down calls are DECAY+1 apart.
C9_CounterMachine ==
  /\ [](op = "new" => ic.count = 0)
  /\ [][calls' = calls + 1 =>
          ic'.count = IF ic.count = DECAY THEN 0 ELSE ic.count + 1]_vars
  /\ [](ic.count \in 0..DECAY)
  /\ [][(calls' = calls + 1 /\ ic.count = DECAY /\ steps >= 1) =>
          since + 1 = DECAY + 1]_vars

\* C9 amended: a call that finds the counter equal to DECAY leaves it at 1;
\* for DECAY >= 1 the counter stays within 0..DECAY, the first step-down is
\* call DECAY+1 and consecutive step-down calls are DECAY apart; for DECAY = 0
\* only the first call steps down and the counter is the number of calls.
C9_CounterMachine_ResetToOne ==
  /\ [](op = "new" => ic.count = 0)
  /\ [][calls' = calls + 1 =>
          ic'.count = IF ic.count = DECAY THEN 1 ELSE ic.count + 1]_vars
  /\ [](DECAY >= 1 => ic.count \in 0..DECAY)
  /\ [](DECAY = 0 => ic.count = calls /\ steps = IF calls = 0 THEN 0 ELSE 1)
  /\ [][(calls' = calls + 1 /\ ic.count = DECAY /\ steps = 0) =>
          calls' = DECAY + 1]_vars
  /\ [][(calls' = calls + 1 /\ ic.count = DECAY /\ steps >= 1) =>
          since + 1 = DECAY]_vars

\* The second step-down of an engine with DECAY = 3 is its seventh call.
C9_Witness ==
  /\ DECAY = 3 /\ steps = 2 /\ calls = 7 /\ since = 0 /\ ic.count = 1

====
